---- MODULE Spec2Model ----
(***************************************************************************)
(* A model of report_app.py: generate_report(input_file, output_file).     *)
(*                                                                         *)
(* One invocation is a straight-line run through the try block (lines      *)
(* 12-160); any exception ends it in the except handler (lines 162-163).   *)
(* pc is the position of the invocation in that block.                     *)
(*                                                                         *)
(* Representation:                                                         *)
(*   - a path is the sequence of its "."-separated pieces, so that         *)
(*     input_file.split(".") is the path itself;                           *)
(*   - a table (DataFrame) is [cols, rows], rows a sequence of functions   *)
(*     from column name to cell;                                           *)
(*   - a work-date cell is the tuple of the numbers read in its text       *)
(*     (<<2024, 1, 5>> for "2024-01-05", << >> for "bad-date");            *)
(*   - a Timestamp is the integer yyyymmdd, which orders as dates do;      *)
(*   - WPCS % is kept in hundredths of a percent (2333 for 23.33), the     *)
(*     grain round(_, 2) leaves.                                           *)
(* The source column "Q`ty" is written "Q_ty": a TLA+ string cannot hold   *)
(* a backquote.                                                            *)
(***************************************************************************)
EXTENDS Integers, Sequences, FiniteSets, TLC

VARIABLES
    pc,             \* position in generate_report
    input_file,     \* the input path, as its "."-separated pieces
    input_table,    \* what the file at input_file holds
    out_file,       \* what is on disk at output_file
    df,             \* the loaded table (line 19/21)
    df_selected,    \* after projection, rename, to_datetime, dropna (36-42)
    df_filtered,    \* after the allow-list (48)
    last_dates,     \* line 53
    sum_qty,        \* line 59
    merged_df,      \* summary_df after lines 64-71, before the threshold
    summary_df,     \* summary_df after line 76
    summary_total,  \* line 85
    ws,             \* the sheet 'Report': row number -> what was written there
    styled,         \* the rows each styling loop touched (129-156)
    signals,        \* message boxes shown: [info, error]
    trace           \* the stages run so far, in order

vars == <<pc, input_file, input_table, out_file, df, df_selected, df_filtered, last_dates,
          sum_qty, merged_df, summary_df, summary_total, ws, styled, signals,
          trace>>

----------------------------------------------------------------------------
(* Bounds of the model *)

MaxRows == 2

----------------------------------------------------------------------------
(* Small helpers *)

Range(f) == {f[x] : x \in DOMAIN f}

Last(s) == s[Len(s)]

RECURSIVE SeqSum(_, _)
SeqSum(s, col) == IF s = << >> THEN 0 ELSE Head(s)[col] + SeqSum(Tail(s), col)

SeqsUpTo(S, n) == UNION {[1..k -> S] : k \in 0..n}

----------------------------------------------------------------------------
(* Inputs *)

\* Input paths, as split(".") sees them.
Paths ==
    { <<"data", "xlsx">>, <<"DATA", "XLS">>, <<"data", "csv">>, <<"csv">>,
      <<"data", "txt">>, <<"data", "csv", "bak">>, <<"data">> }

\* Work-date cells: two dates and a text that holds no date ("bad-date").
DateCells == { <<2024, 1, 5>>, <<2024, 1, 6>>, << >> }

MachineCells == { "A01", "A38", "A39" }

\* <<Q`ty, WPCS Qty>> cells.
QtyCells == { <<0, 2>>, <<8, 1>>, <<3, 1>>, <<5, 1>> }

RawRow(d, m, q) ==
    ("Work date" :> d) @@ ("Shift" :> "1") @@ ("Machine" :> m)
        @@ ("Q_ty" :> q[1]) @@ ("WPCS Qty" :> q[2])

RawRows == { RawRow(d, m, q) : d \in DateCells, m \in MachineCells, q \in QtyCells }

SourceColumns == { "Work date", "Shift", "Machine", "Q_ty", "WPCS Qty" }

WithoutColumn(t, c) ==
    [ cols |-> t.cols \ {c},
      rows |-> [i \in DOMAIN t.rows |->
                  [k \in DOMAIN t.rows[i] \ {c} |-> t.rows[i][k]]] ]

WithColumn(t, c, v) ==
    [ cols |-> t.cols \cup {c},
      rows |-> [i \in DOMAIN t.rows |-> (c :> v) @@ t.rows[i]] ]

\* Files holding the five columns.
FullTables == { [cols |-> SourceColumns, rows |-> r] : r \in SeqsUpTo(RawRows, MaxRows) }

OneRowTable == [cols |-> SourceColumns,
                rows |-> << RawRow(<<2024, 1, 5>>, "A01", <<3, 1>>) >>]

\* Files with a column missing, misspelt, or one too many.
OtherTables ==
    { WithoutColumn(OneRowTable, c) : c \in SourceColumns }
    \cup { WithColumn(WithoutColumn(OneRowTable, "Machine"), "machine", "A01"),
           WithColumn(OneRowTable, "Operator", "x") }

\* A few files with the five columns: empty, one machine kept, one kept and one
\* dropped, two kept.
SampleTables ==
    { [cols |-> SourceColumns, rows |-> r] :
        r \in { << >>,
                << RawRow(<<2024, 1, 5>>, "A01", <<3, 1>>) >>,
                << RawRow(<<2024, 1, 5>>, "A01", <<3, 1>>),
                   RawRow(<<2024, 1, 6>>, "A38", <<8, 1>>) >>,
                << RawRow(<<2024, 1, 6>>, "A38", <<5, 1>>),
                   RawRow(<<2024, 1, 5>>, "A01", <<3, 1>>) >> } }

Tables == SampleTables \cup OtherTables

----------------------------------------------------------------------------
(* Loader, lines 16-23 *)

\* str.lower() on the pieces the paths are made of.
Lower(s) ==
    CASE s = "XLS"  -> "xls"
      [] s = "CSV"  -> "csv"
      [] s = "XLSX" -> "xlsx"
      [] s = "DATA" -> "data"
      [] OTHER      -> s

\* file_ext = input_file.split(".")[-1].lower()
FileExt(path) == Lower(Last(path))

ExcelExts == { "xlsx", "xls" }

\* IsExcel as it would be with one more extension let through.
IsExcelMutant(ext) == ext \in ExcelExts \cup {"txt"}

IsExcel(ext) == ext \in ExcelExts

IsCsv(ext) == ext = "csv"

EmptyTable == [cols |-> {}, rows |-> << >>]

NoSheet == [r \in {} |-> "none"]

NoStyle == [hdrA |-> {}, dataA |-> {}, hdrB |-> {}, dataB |-> {}]

\* ShowError as it would be with an except handler that swallows the error.
ShowErrorMutant(sig) == sig

\* raise inside the try block: the except handler shows one error box.
ShowError(sig) == [sig EXCEPT !.error = @ + 1]

ShowInfo(sig) == [sig EXCEPT !.info = @ + 1]

Raise ==
    /\ pc' = "failed"
    /\ signals' = ShowError(signals)

\* The state of every invocation before its first line.
Fresh ==
    /\ pc = "start"
    /\ df = EmptyTable
    /\ df_selected = << >>
    /\ df_filtered = << >>
    /\ last_dates = << >>
    /\ sum_qty = << >>
    /\ merged_df = << >>
    /\ summary_df = << >>
    /\ summary_total = << >>
    /\ ws = NoSheet
    /\ styled = NoStyle
    /\ signals = [info |-> 0, error |-> 0]
    /\ trace = << >>

\* Any path, any state of the output path, a file of the few above.
Init ==
    /\ input_file \in Paths
    /\ input_table \in Tables
    /\ out_file \in {"absent", "prior"}
    /\ Fresh

\* A readable csv file of up to MaxRows rows, and no file at the output path.
InitData ==
    /\ input_file = <<"data", "csv">>
    /\ input_table \in FullTables
    /\ out_file = "absent"
    /\ Fresh

\* Lines 16-23, the file read.
Load ==
    /\ pc = "start"
    /\ trace' = Append(trace, "load")
    /\ UNCHANGED <<input_file, input_table, out_file, df_selected, df_filtered, last_dates,
                   sum_qty, merged_df, summary_df, summary_total, ws, styled>>
    /\ IF IsExcel(FileExt(input_file)) \/ IsCsv(FileExt(input_file))
       THEN \/ /\ df' = input_table
               /\ pc' = "loaded"
               /\ UNCHANGED signals
            \/ /\ Raise             \* pd.read_excel / pd.read_csv raises
               /\ UNCHANGED df
       ELSE /\ Raise                \* ValueError, line 23
            /\ UNCHANGED df

----------------------------------------------------------------------------
(* Transformer, lines 28-89 *)

\* column_map, lines 28-34
ColumnMap ==
    ("Work date" :> "work date") @@ ("Shift" :> "shift") @@ ("Machine" :> "machine")
        @@ ("Q_ty" :> "worked Q'ty") @@ ("WPCS Qty" :> "WPC qty")

\* df[list(column_map.keys())] raises KeyError when a key is no column of df.
HasColumns(t) == DOMAIN ColumnMap \subseteq t.cols

\* df[list(column_map.keys())].rename(columns=column_map), one row
SelectRow(r) ==
    [n \in Range(ColumnMap) |-> r[CHOOSE k \in DOMAIN ColumnMap : ColumnMap[k] = n]]

SelectColumns(t) == [i \in DOMAIN t.rows |-> SelectRow(t.rows[i])]

NaT == -1

DaysIn(y, m) ==
    CASE m \in {4, 6, 9, 11} -> 30
      [] m = 2 -> IF y % 4 = 0 /\ (y % 100 # 0 \/ y % 400 = 0) THEN 29 ELSE 28
      [] OTHER -> 31

\* pd.to_datetime(cell, errors='coerce'): the Timestamp, or NaT.
ToDatetime(cell) ==
    IF /\ Len(cell) = 3
       /\ cell[2] \in 1..12
       /\ cell[3] \in 1..DaysIn(cell[1], cell[2])
    THEN cell[1] * 10000 + cell[2] * 100 + cell[3]
    ELSE NaT

\* line 41
ParseDates(rows) ==
    [i \in DOMAIN rows |-> [rows[i] EXCEPT !["work date"] = ToDatetime(@)]]

\* DropNa as it would be without line 42.
DropNaMutant(rows) == rows

\* line 42: dropna(subset=['work date'])
DropNa(rows) == SelectSeq(rows, LAMBDA r : r["work date"] # NaT)

Digits == <<"0", "1", "2", "3", "4", "5", "6", "7", "8", "9">>

\* f"A{i:02d}"
MachineCode(i) == "A" \o Digits[((i \div 10) % 10) + 1] \o Digits[(i % 10) + 1]

\* AllowedMachines as it would be with range(1, 40).
AllowedMachinesMutant == { MachineCode(i) : i \in 1..39 }

\* line 47: [f"A{i:02d}" for i in range(1, 39)]
AllowedMachines == { MachineCode(i) : i \in 1..38 }

\* line 48
FilterMachines(rows) == SelectSeq(rows, LAMBDA r : r["machine"] \in AllowedMachines)

\* The machine cells in ascending string order (groupby sorts its keys).
MachineOrder == <<"A01", "A38", "A39">>

MachineLess(a, b) ==
    (CHOOSE i \in DOMAIN MachineOrder : MachineOrder[i] = a)
        < (CHOOSE i \in DOMAIN MachineOrder : MachineOrder[i] = b)

RECURSIVE SortedKeys(_)
SortedKeys(S) ==
    IF S = {} THEN << >>
    ELSE LET least == CHOOSE a \in S : \A b \in S \ {a} : MachineLess(a, b)
         IN  <<least>> \o SortedKeys(S \ {least})

\* groupby("machine"): the group keys, sorted, and each key's rows.
GroupKeys(rows) == SortedKeys({ r["machine"] : r \in Range(rows) })

Group(rows, k) == SelectSeq(rows, LAMBDA r : r["machine"] = k)

SetMax(S) == CHOOSE x \in S : \A y \in S : y <= x

\* LastDates as it would be if line 53 grouped df_selected, not df_filtered.
LastDatesMutant(rows) ==
    LET keys == GroupKeys(df_selected)
    IN  [i \in DOMAIN keys |->
           ("machine" :> keys[i])
           @@ ("last_work_date" :>
                 SetMax({ r["work date"] : r \in Range(Group(df_selected, keys[i])) }))]

\* lines 53-54
LastDates(rows) ==
    LET keys == GroupKeys(rows)
    IN  [i \in DOMAIN keys |->
           ("machine" :> keys[i])
           @@ ("last_work_date" :>
                 SetMax({ r["work date"] : r \in Range(Group(rows, keys[i])) }))]

\* line 59
SumQty(rows) ==
    LET keys == GroupKeys(rows)
    IN  [i \in DOMAIN keys |->
           ("machine" :> keys[i])
           @@ ("worked Q'ty" :> SeqSum(Group(rows, keys[i]), "worked Q'ty"))
           @@ ("WPC qty" :> SeqSum(Group(rows, keys[i]), "WPC qty"))]

\* One left row joined with every right row of the same machine.
RECURSIVE Matches(_, _)
Matches(l, right) ==
    IF right = << >> THEN << >>
    ELSE (IF Head(right)["machine"] = l["machine"] THEN << l @@ Head(right) >> ELSE << >>)
             \o Matches(l, Tail(right))

\* line 64: pd.merge(left, right, on="machine"), an inner join in left order
RECURSIVE Merge(_, _)
Merge(left, right) ==
    IF left = << >> THEN << >>
    ELSE Matches(Head(left), right) \o Merge(Tail(left), right)

\* Hundredths kept by round(_, 2)
PctScale == 100

\* round(n / d, 0) for n >= 0, d > 0: to the nearest, a tie to the even one
RoundHalfEven(n, d) ==
    LET q == n \div d
        r == n % d
    IN  IF 2 * r < d THEN q
        ELSE IF 2 * r > d THEN q + 1
        ELSE IF q % 2 = 0 THEN q ELSE q + 1

\* WpcsPercent as it would be without the factor 100.
WpcsPercentMutant(wpc, worked) ==
    IF worked # 0 THEN RoundHalfEven(wpc * PctScale, worked) ELSE 0

\* line 70: round((wpc / worked) * 100, 2) if worked != 0 else 0
WpcsPercent(wpc, worked) ==
    IF worked # 0 THEN RoundHalfEven(wpc * 100 * PctScale, worked) ELSE 0

\* lines 69-71
AddPercent(rows) ==
    [i \in DOMAIN rows |->
       rows[i] @@ ("WPCS %" :> WpcsPercent(rows[i]["WPC qty"], rows[i]["worked Q'ty"]))]

MinPercent == 20

\* KeepRow as it would be with the threshold at 0.
KeepRowMutant(r) == r["WPCS %"] > 0

\* line 76
KeepRow(r) == r["WPCS %"] >= MinPercent * PctScale

Threshold(rows) == SelectSeq(rows, KeepRow)

\* TotalTable as it would be if the totals were taken before the filter of line 76.
TotalTableMutant(rows) ==
    LET total_worked_qty == SeqSum(merged_df', "worked Q'ty")
        total_wpc_qty    == SeqSum(merged_df', "WPC qty")
    IN  << ("Total worked Q'ty" :> total_worked_qty)
           @@ ("Total WPC qty" :> total_wpc_qty)
           @@ ("Total WPCS %" :> IF total_worked_qty # 0
                                 THEN RoundHalfEven(total_wpc_qty * 100 * PctScale,
                                                    total_worked_qty)
                                 ELSE 0) >>

\* lines 81-89
TotalTable(rows) ==
    LET total_worked_qty == SeqSum(rows, "worked Q'ty")
        total_wpc_qty    == SeqSum(rows, "WPC qty")
    IN  << ("Total worked Q'ty" :> total_worked_qty)
           @@ ("Total WPC qty" :> total_wpc_qty)
           @@ ("Total WPCS %" :> WpcsPercent(total_wpc_qty, total_worked_qty)) >>

\* Lines 28-48: projection and rename, date parsing, allow-list.
Select ==
    /\ pc = "loaded"
    /\ trace' = Append(trace, "select")
    /\ UNCHANGED <<input_file, input_table, out_file, df, last_dates, sum_qty, merged_df,
                   summary_df, summary_total, ws, styled>>
    /\ IF HasColumns(df)
       THEN /\ df_selected' = DropNa(ParseDates(SelectColumns(df)))
            /\ df_filtered' = FilterMachines(df_selected')
            /\ pc' = "selected"
            /\ UNCHANGED signals
       ELSE /\ Raise                \* KeyError, line 36
            /\ UNCHANGED <<df_selected, df_filtered>>

\* Lines 53-89: grouping, merge, ratio, threshold, grand total.
Aggregate ==
    /\ pc = "selected"
    /\ trace' = Append(trace, "aggregate")
    /\ last_dates' = LastDates(df_filtered)
    /\ sum_qty' = SumQty(df_filtered)
    /\ merged_df' = AddPercent(Merge(last_dates', sum_qty'))
    /\ summary_df' = Threshold(merged_df')
    /\ summary_total' = TotalTable(summary_df')
    /\ pc' = "aggregated"
    /\ UNCHANGED <<input_file, input_table, out_file, df, df_selected, df_filtered, ws, styled,
                   signals>>

----------------------------------------------------------------------------
(* Renderer, lines 94-158 *)

\* DataFrame.to_excel(writer, index=False, startrow=s): the header goes to the
\* 0-indexed row s, that is sheet row s + 1, the data rows below it.
ToExcel(sheet, block, nrows, startrow) ==
    [r \in (startrow + 1)..(startrow + 1 + nrows) |->
        IF r = startrow + 1
        THEN [block |-> block, kind |-> "header", idx |-> 0]
        ELSE [block |-> block, kind |-> "data", idx |-> r - startrow - 1]]
    @@ sheet

\* line 96
StartRowTotal(n) == n + 2

\* lines 95-97
WriteSheet(summary, total) ==
    ToExcel(ToExcel(NoSheet, "summary_df", Len(summary), 0),
            "summary_total", Len(total), StartRowTotal(Len(summary)))

\* StartTotal as it would be with the 0-indexed start row used as a sheet row.
StartTotalMutant(n) == n + 2

\* line 144
StartTotal(n) == n + 3

\* lines 129-156: the rows the four styling loops touch
StyleRows(summary, total) ==
    [ hdrA  |-> {1},
      dataA |-> 2..(1 + Len(summary)),
      hdrB  |-> {StartTotal(Len(summary))},
      dataB |-> (StartTotal(Len(summary)) + 1)..(StartTotal(Len(summary)) + Len(total)) ]

\* Lines 94-97: the ExcelWriter block. It may fail before the file is opened, or
\* while the file is being written.
Write ==
    /\ pc = "aggregated"
    /\ trace' = Append(trace, "write")
    /\ UNCHANGED <<input_file, input_table, df, df_selected, df_filtered, last_dates, sum_qty,
                   merged_df, summary_df, summary_total, styled>>
    /\ \/ /\ ws' = WriteSheet(summary_df, summary_total)
          /\ out_file' = "unstyled"
          /\ pc' = "written"
          /\ UNCHANGED signals
       \/ /\ Raise
          /\ out_file' \in {out_file, "partial"}
          /\ UNCHANGED ws

\* Lines 102-103: load_workbook(output_file).
Reload ==
    /\ pc = "written"
    /\ trace' = Append(trace, "reload")
    /\ UNCHANGED <<input_file, input_table, out_file, df, df_selected, df_filtered, last_dates,
                   sum_qty, merged_df, summary_df, summary_total, ws, styled>>
    /\ \/ /\ pc' = "reloaded"
          /\ UNCHANGED signals
       \/ Raise

\* Lines 106-156: styling, in memory.
Style ==
    /\ pc = "reloaded"
    /\ trace' = Append(trace, "style")
    /\ styled' = StyleRows(summary_df, summary_total)
    /\ pc' = "styled"
    /\ UNCHANGED <<input_file, input_table, out_file, df, df_selected, df_filtered, last_dates,
                   sum_qty, merged_df, summary_df, summary_total, ws, signals>>

\* Line 158: wb.save(output_file). It may fail before the file is reopened, or
\* while the file is being rewritten.
Save ==
    /\ pc = "styled"
    /\ trace' = Append(trace, "save")
    /\ UNCHANGED <<input_file, input_table, df, df_selected, df_filtered, last_dates, sum_qty,
                   merged_df, summary_df, summary_total, ws, styled>>
    /\ \/ /\ out_file' = "styled"
          /\ pc' = "saved"
          /\ UNCHANGED signals
       \/ /\ Raise
          /\ out_file' \in {out_file, "partial"}

\* Line 160: messagebox.showinfo.
Notify ==
    /\ pc = "saved"
    /\ trace' = Append(trace, "notify")
    /\ signals' = ShowInfo(signals)
    /\ pc' = "done"
    /\ UNCHANGED <<input_file, input_table, out_file, df, df_selected, df_filtered, last_dates,
                   sum_qty, merged_df, summary_df, summary_total, ws, styled>>

Next ==
    \/ Load
    \/ Select
    \/ Aggregate
    \/ Write
    \/ Reload
    \/ Style
    \/ Save
    \/ Notify

Spec == Init /\ [][Next]_vars

SpecData == InitData /\ [][Next]_vars

----------------------------------------------------------------------------
(* Properties *)

Terminal == pc \in {"done", "failed"}

Ran(stage) == stage \in Range(trace)

\* The file at the output path was written, wholly or in part, by this invocation.
WrittenByThisRun == out_file \in {"partial", "unstyled", "styled"}

AbsVal(x) == IF x < 0 THEN -x ELSE x

\* pct (in hundredths) is n / d * 100 rounded to two decimals: no hundredth is nearer.
IsRounded(pct, n, d) == 2 * AbsVal(pct * d - n * 100 * 100) <= AbsVal(d)

\* pct is the zero-guarded ratio of wpc to worked.
IsRatio(pct, wpc, worked) ==
    IF worked # 0 THEN IsRounded(pct, wpc, worked) ELSE pct = 0

\* The 38 canonical machine codes.
CanonicalCodes ==
    { "A01", "A02", "A03", "A04", "A05", "A06", "A07", "A08", "A09", "A10",
      "A11", "A12", "A13", "A14", "A15", "A16", "A17", "A18", "A19", "A20",
      "A21", "A22", "A23", "A24", "A25", "A26", "A27", "A28", "A29", "A30",
      "A31", "A32", "A33", "A34", "A35", "A36", "A37", "A38" }

\* The rows of the loaded file whose work date parses.
DatedRows == SelectSeq(df.rows, LAMBDA r : ToDatetime(r["Work date"]) # NaT)

UndatedRows == SelectSeq(df.rows, LAMBDA r : ToDatetime(r["Work date"]) = NaT)

\* The rows of the loaded file that count for machine m.
RowsOf(m) == SelectSeq(DatedRows, LAMBDA r : r["Machine"] = m)

Machines(rows) == { rows[i]["machine"] : i \in DOMAIN rows }

NoDuplicates(rows) ==
    \A i, j \in DOMAIN rows : rows[i]["machine"] = rows[j]["machine"] => i = j

\* C1: when a run has failed, no file written by that run is at the output path.
C1_NoOutputAfterFailure == pc = "failed" => ~WrittenByThisRun

\* C2: every summary row that reaches the output has WPCS % >= 20, and a machine
\* whose summed worked Q'ty is 0 has WPCS % = 0 and is not in the output.
C2_Threshold ==
    /\ \A i \in DOMAIN summary_df : summary_df[i]["WPCS %"] >= 20 * 100
    /\ \A r \in DOMAIN ws :
          ws[r].block = "summary_df" /\ ws[r].kind = "data"
              => summary_df[ws[r].idx]["WPCS %"] >= 20 * 100
    /\ \A i \in DOMAIN merged_df :
          merged_df[i]["worked Q'ty"] = 0
              => /\ merged_df[i]["WPCS %"] = 0
                 /\ merged_df[i]["machine"] \notin Machines(summary_df)

C2_Witness ==
    /\ pc = "done"
    /\ summary_df # << >>
    /\ \E i \in DOMAIN merged_df : merged_df[i]["worked Q'ty"] = 0

\* C3: the grand total's quantities are the sums over the rows that survived the
\* threshold, and its WPCS % is the zero-guarded rounded ratio of those sums.
C3_TotalConsistency ==
    Ran("aggregate") =>
        /\ Len(summary_total) = 1
        /\ summary_total[1]["Total worked Q'ty"] = SeqSum(summary_df, "worked Q'ty")
        /\ summary_total[1]["Total WPC qty"] = SeqSum(summary_df, "WPC qty")
        /\ IsRatio(summary_total[1]["Total WPCS %"],
                   SeqSum(summary_df, "WPC qty"), SeqSum(summary_df, "worked Q'ty"))

C3_Witness ==
    /\ pc = "done"
    /\ summary_df # << >>
    /\ Len(summary_df) < Len(merged_df)
    /\ \E i \in DOMAIN merged_df :
          /\ merged_df[i]["machine"] \notin Machines(summary_df)
          /\ merged_df[i]["worked Q'ty"] # 0

\* C4: every summary row has a machine code among A01..A38, and the rows of the
\* file with another code add to no per-machine sum, no last date, no grand total.
C4_AllowList ==
    Ran("aggregate") =>
        /\ Machines(summary_df) \subseteq CanonicalCodes
        /\ Machines(merged_df) \subseteq CanonicalCodes
        /\ Machines(last_dates) \subseteq CanonicalCodes
        /\ Machines(sum_qty) \subseteq CanonicalCodes
        /\ \A i \in DOMAIN merged_df :
              LET m == merged_df[i]["machine"]
              IN  /\ merged_df[i]["worked Q'ty"] = SeqSum(RowsOf(m), "Q_ty")
                  /\ merged_df[i]["WPC qty"] = SeqSum(RowsOf(m), "WPCS Qty")
                  /\ merged_df[i]["last_work_date"] \in
                         { ToDatetime(r["Work date"]) : r \in Range(RowsOf(m)) }
        /\ SeqSum(merged_df, "worked Q'ty")
              = SeqSum(SelectSeq(DatedRows, LAMBDA r : r["Machine"] \in CanonicalCodes),
                       "Q_ty")
        /\ SeqSum(merged_df, "WPC qty")
              = SeqSum(SelectSeq(DatedRows, LAMBDA r : r["Machine"] \in CanonicalCodes),
                       "WPCS Qty")
        /\ summary_total[1]["Total worked Q'ty"] <= SeqSum(merged_df, "worked Q'ty")
        /\ summary_total[1]["Total WPC qty"] <= SeqSum(merged_df, "WPC qty")

C4_Witness ==
    /\ pc = "done"
    /\ summary_df # << >>
    /\ \E r \in Range(DatedRows) :
          /\ r["Machine"] \notin CanonicalCodes
          /\ r["Q_ty"] # 0

\* C5: a row whose work date does not parse is removed before grouping, adds to
\* no machine's last date or sums, and does not make the run fail.
C5_DateDrop ==
    /\ Ran("select") /\ pc = "failed" /\ Last(trace) = "select" => ~HasColumns(df)
    /\ Ran("aggregate") => ~(pc = "failed" /\ Last(trace) = "aggregate")
    /\ Ran("select") /\ HasColumns(df) =>
          /\ \A i \in DOMAIN df_selected : df_selected[i]["work date"] # NaT
          /\ \A i \in DOMAIN df_filtered : df_filtered[i]["work date"] # NaT
          /\ Len(df_selected) = Len(DatedRows)
    /\ Ran("aggregate") =>
          /\ \A i \in DOMAIN sum_qty :
                LET m == sum_qty[i]["machine"]
                IN  /\ sum_qty[i]["worked Q'ty"] = SeqSum(RowsOf(m), "Q_ty")
                    /\ sum_qty[i]["WPC qty"] = SeqSum(RowsOf(m), "WPCS Qty")
          /\ \A i \in DOMAIN last_dates :
                LET m == last_dates[i]["machine"]
                IN  /\ last_dates[i]["last_work_date"] # NaT
                    /\ last_dates[i]["last_work_date"] \in
                           { ToDatetime(r["Work date"]) : r \in Range(RowsOf(m)) }
                    /\ \A r \in Range(RowsOf(m)) :
                           ToDatetime(r["Work date"]) <= last_dates[i]["last_work_date"]
          /\ \A r \in Range(UndatedRows) :
                RowsOf(r["Machine"]) = << >> => r["Machine"] \notin Machines(merged_df)

C5_Witness ==
    /\ pc = "done"
    /\ summary_df # << >>
    /\ \E r \in Range(UndatedRows) :
          /\ r["Machine"] \in Machines(summary_df)
          /\ r["Q_ty"] # 0

C7_RatioCorrectness ==
    \A i \in DOMAIN merged_df :
        /\ DOMAIN merged_df[i]
              = {"machine", "last_work_date", "worked Q'ty", "WPC qty", "WPCS %"}
        /\ IsRatio(merged_df[i]["WPCS %"], merged_df[i]["WPC qty"],
                   merged_df[i]["worked Q'ty"])

C7_Witness ==
    /\ Ran("aggregate")
    /\ \E i \in DOMAIN merged_df :
          /\ merged_df[i]["worked Q'ty"] = 0
          /\ merged_df[i]["WPC qty"] # 0
    /\ \E i \in DOMAIN merged_df :
          /\ merged_df[i]["worked Q'ty"] # 0
          /\ merged_df[i]["WPCS %"] * merged_df[i]["worked Q'ty"]
                # merged_df[i]["WPC qty"] * 100 * 100

StageOrder ==
    <<"load", "select", "aggregate", "write", "reload", "style", "save", "notify">>

\* C8: a run ends with exactly one signal, success or failure; the stages run in
\* the order Loader, Transformer, Renderer; success is signalled only after the
\* final save.
C8_OneOutcome ==
    /\ signals.info + signals.error <= 1
    /\ ~Terminal => signals.info + signals.error = 0
    /\ pc = "done" => signals = [info |-> 1, error |-> 0]
    /\ pc = "failed" => signals = [info |-> 0, error |-> 1]
    /\ Len(trace) <= Len(StageOrder)
    /\ \A i \in DOMAIN trace : trace[i] = StageOrder[i]
    /\ signals.info = 1 => Ran("save") /\ out_file = "styled" /\ pc = "done"

C8_Witness == pc = "done" /\ signals.info = 1 /\ out_file = "styled"

\* C9: with N surviving rows the summary table fills rows 1..N+1, row N+2 is
\* blank, the grand total's header is row N+3 and its data row N+4, and the rows
\* styled as the grand total's header and data are the rows it was written to.
C9_SheetLayout ==
    LET N == Len(summary_df)
    IN  /\ Ran("write") /\ ~(pc = "failed" /\ Last(trace) = "write") =>
              /\ DOMAIN ws = (1..(N + 1)) \cup {N + 3, N + 4}
              /\ ws[1] = [block |-> "summary_df", kind |-> "header", idx |-> 0]
              /\ \A r \in 2..(N + 1) :
                    ws[r] = [block |-> "summary_df", kind |-> "data", idx |-> r - 1]
              /\ N + 2 \notin DOMAIN ws
              /\ ws[N + 3] = [block |-> "summary_total", kind |-> "header", idx |-> 0]
              /\ ws[N + 4] = [block |-> "summary_total", kind |-> "data", idx |-> 1]
        /\ Ran("style") =>
              /\ styled.hdrA = { r \in DOMAIN ws :
                                   ws[r].block = "summary_df" /\ ws[r].kind = "header" }
              /\ styled.dataA = { r \in DOMAIN ws :
                                   ws[r].block = "summary_df" /\ ws[r].kind = "data" }
              /\ styled.hdrB = { r \in DOMAIN ws :
                                   ws[r].block = "summary_total" /\ ws[r].kind = "header" }
              /\ styled.dataB = { r \in DOMAIN ws :
                                   ws[r].block = "summary_total" /\ ws[r].kind = "data" }

C9_Witness == pc = "done" /\ Len(summary_df) = 2 /\ styled.hdrB = {5}

====
